---- MODULE Spec2Model ----
(***************************************************************************)
(* Model of onedrive_ai_organizer.py: the persisted registry               *)
(* (organizer_state.json), the audit log (organizer_actions_log.jsonl),    *)
(* the filesystem under the configured root, and the Flask request         *)
(* handlers that load, modify and save the registry.                       *)
(*                                                                         *)
(* File names are sequences of one-character strings, so that              *)
(* safe_filename, Path.suffix and Path.stem are computed character by      *)
(* character.  Folder values are atomic strings: the code only compares    *)
(* them and joins them to the root.  A file path is <<root, folder, name>> *)
(* (folder "" is the root directory itself); an item's relative path is    *)
(* <<folder, name>>.  An absent value (Python None, a missing key) is the  *)
(* empty sequence <<>>, a present one is <<v>>.  Confidences are in        *)
(* hundredths (0.75 is 75).                                                *)
(***************************************************************************)
EXTENDS Integers, Sequences, FiniteSets, TLC

\* ------------------------------------------------------------------ bounds
NumThreads == 2
MaxAttempts == 2
MaxScans == 1
MaxConcRequests == 3

\* ------------------------------------------------------- program constants
ALLOWED_FOLDERS ==
  << "Finance/Invoices/2024", "Finance/Invoices/2025", "Finance/Taxes",
     "Finance/Contracts", "Work/IT", "Work/Docs", "Work/Clients", "Dev/Docs",
     "Dev/Assets", "Dev/Tools", "Design/AI", "Design/PSD", "Design/SVG",
     "Media/Images", "Media/Screenshots", "Installers", "_ToSort" >>
MAX_FILES_SCAN == 5000
DEFAULT_MODE == "move"
NEVER_OVERWRITE == TRUE
MAX_NAME_LEN == 180
AUTO_APPROVE == 75
SUGGEST_LIMIT_MAX == 50
FALLBACK_FOLDER == "_ToSort"
ERR_DEST_EXISTS == "Destination exists (overwrite disabled)."

Range(s) == {s[i] : i \in DOMAIN s}

\* ------------------------------------------------------------- characters
ForbiddenChars == {"<", ">", ":", "\"", "/", "\\", "|", "?", "*", "\t", "\n"}
WhitespaceChars == {" "}

Lower(c) ==
  CASE c = "A" -> "a" [] c = "M" -> "m" [] c = "D" -> "d" [] OTHER -> c
LowerSeq(s) == [i \in DOMAIN s |-> Lower(s[i])]

\* re.sub(r'[<>:"/\\|?*\x00-\x1F]', "_", name)
ReplaceForbidden(s) ==
  [i \in DOMAIN s |-> IF s[i] \in ForbiddenChars THEN "_" ELSE s[i]]

\* re.sub(r"\s+", " ", name): every run of whitespace becomes one space
RECURSIVE CollapseSpaces(_)
CollapseSpaces(s) ==
  IF \A i \in DOMAIN s : s[i] \notin WhitespaceChars THEN s
  ELSE IF Head(s) \in WhitespaceChars
       THEN IF Len(s) > 1 /\ s[2] \in WhitespaceChars
            THEN CollapseSpaces(Tail(s))
            ELSE <<" ">> \o CollapseSpaces(Tail(s))
       ELSE <<Head(s)>> \o CollapseSpaces(Tail(s))

RECURSIVE LStrip(_, _)
LStrip(s, chars) ==
  IF Len(s) > 0 /\ Head(s) \in chars THEN LStrip(Tail(s), chars) ELSE s

RECURSIVE RStrip(_, _)
RStrip(s, chars) ==
  IF Len(s) > 0 /\ s[Len(s)] \in chars
  THEN RStrip(SubSeq(s, 1, Len(s) - 1), chars) ELSE s

Strip(s) == RStrip(LStrip(s, WhitespaceChars), WhitespaceChars)

Truncate(s, n) == IF Len(s) > n THEN SubSeq(s, 1, n) ELSE s

safe_filename(name) ==
  Truncate(RStrip(Strip(CollapseSpaces(ReplaceForbidden(name))), {" ", "."}),
           MAX_NAME_LEN)

\* str.rfind("."): the last index of a dot, 0 when there is none
RFindDot(s) ==
  IF \E i \in DOMAIN s : s[i] = "."
  THEN CHOOSE i \in DOMAIN s :
         s[i] = "." /\ \A j \in (i + 1)..Len(s) : s[j] # "."
  ELSE 0

\* pathlib: a suffix exists when the last dot is neither first nor last
HasSuffix(name) == LET i == RFindDot(name) IN 1 < i /\ i < Len(name)
PathSuffix(name) ==
  IF HasSuffix(name) THEN SubSeq(name, RFindDot(name), Len(name)) ELSE <<>>
PathStem(name) ==
  IF HasSuffix(name) THEN SubSeq(name, 1, RFindDot(name) - 1) ELSE name

EndsWith(s, suf) ==
  Len(suf) <= Len(s) /\ SubSeq(s, Len(s) - Len(suf) + 1, Len(s)) = suf

Min(a, b) == IF a < b THEN a ELSE b
Max(a, b) == IF a > b THEN a ELSE b

\* ------------------------------------------------------- the modelled world
Threads == 1..NumThreads

NameA == <<"a", ".", "m", "d">>
NameWork == <<"W", "o", "r", "k">>
NameN == <<"n", ".", "M", "D">>
NameEdit == <<"m", ".">>

RootInputs == {"/r"}
ModeInputs == {"move", "copy", "link"}
StatusInputs == {"candidate", "never", "done"}
LimitInputs == {0, 1, 10, 60}
\* what a submitted form row carries besides the approval box: nothing, or a
\* folder and a name
RowEdits == {[folder |-> "../outside", name |-> NameEdit]}

\* folders that resolve outside the root when joined to it
EscapingFolders == {"../outside"}

\* the first path component of a folder value, as a file name
FirstComponent(folder) ==
  CASE folder = "Work/IT" -> NameWork
    [] OTHER -> <<>>

\* the regular file a root value names, if it spells the path of one
RootAsFile(root) ==
  CASE root = "/r/Work" -> << <<"/r", "", NameWork>> >>
    [] OTHER -> <<>>

\* the filesystems the program may be started on: /r exists, /q does not
InitialFiles ==
  { (<<"/r", "", NameA>> :> "A") @@ (<<"/r", "", NameWork>> :> "W") }
InitialDirs == {<<"", "">>, <<"/r", "">>}

\* ------------------------------------------------------------ the Advisor
\* The members of the JSON object in a response: each of suggested_name,
\* suggested_folder and confidence is missing, a string, or a value of another
\* type.  A confidence is "num" when float() accepts it and gives a number (in
\* hundredths), "bool" for true/false (float gives 1.0/0.0), "nan" for NaN or
\* the string "nan" (float gives a NaN), "str" for anything float() rejects.
Reply(nk, n, fk, f, ck, c) ==
  [kind |-> "obj", name_kind |-> nk, name |-> n, folder_kind |-> fk,
   folder |-> f, conf_kind |-> ck, conf |-> c]
NoFields == Reply("missing", <<>>, "missing", "", "missing", 0)

\* The response text, token by token: text without braces, a brace, or the
\* members of a JSON object (what stands between its braces).
Junk == [tok |-> "junk", obj |-> NoFields]
Open == [tok |-> "{", obj |-> NoFields]
Close == [tok |-> "}", obj |-> NoFields]
Members(r) == [tok |-> "members", obj |-> r]
Object(r) == <<Open, Members(r), Close>>

\* What the HTTP call to the provider can produce: an exception (refused
\* connection, timeout, HTTP error status) or a response text.
Raise == [kind |-> "raise", out |-> <<>>]
Text(out) == [kind |-> "text", out |-> out]

GoodReply == Reply("str", NameN, "str", "Work/IT", "num", 90)
AdvisorReplies ==
  { Raise,
    Text(<<Junk>>),
    Text(<<Open, Junk, Close>>),
    Text(Object(GoodReply)),
    Text(Object(Reply("missing", <<>>, "str", "Random/NotAllowed", "num", 0 - 5))),
    Text(Object(Reply("other", <<>>, "str", "Work/IT", "num", 90))) }

\* out.find(c), counted from 1: 0 when c does not occur
FindTok(out, c) ==
  IF \E i \in DOMAIN out : out[i].tok = c
  THEN CHOOSE i \in DOMAIN out :
         out[i].tok = c /\ \A j \in 1..(i - 1) : out[j].tok # c
  ELSE 0

RFindTok_First(out, c) ==
  IF \E i \in DOMAIN out : out[i].tok = c
  THEN CHOOSE i \in DOMAIN out :
         out[i].tok = c /\ \A j \in 1..(i - 1) : out[j].tok # c
  ELSE 0

\* out.rfind(c), counted from 1: 0 when c does not occur
RFindTok(out, c) ==
  IF \E i \in DOMAIN out : out[i].tok = c
  THEN CHOOSE i \in DOMAIN out :
         out[i].tok = c /\ \A j \in (i + 1)..Len(out) : out[j].tok # c
  ELSE 0

\* json.loads(jtxt) of a text that begins and ends with a brace: an object
\* when nothing but its members stands between them, an exception otherwise
JsonLoads(jtxt) ==
  IF Len(jtxt) = 2 THEN NoFields
  ELSE IF Len(jtxt) = 3 /\ jtxt[2].tok = "members" THEN jtxt[2].obj
  ELSE [NoFields EXCEPT !.kind = "badjson"]

\* lines 333-351: the text from the first "{" to the last "}", parsed
ParseResponse(out) ==
  LET start == FindTok(out, "{")
      end == RFindTok(out, "}")
  IN IF start = 0 \/ end = 0 \/ end <= start
     THEN [NoFields EXCEPT !.kind = "nojson"]
     ELSE JsonLoads(SubSeq(out, start, end))

Fallback(filename) ==
  [suggested_name |-> filename, suggested_folder |-> FALLBACK_FOLDER,
   confidence |-> 0]

\* lines 354-356: sanitize, then force the extension onto the stem
NormalizeName(raw, ext) ==
  LET sug_name == safe_filename(raw)
  IN IF EndsWith(LowerSeq(sug_name), LowerSeq(ext))
     THEN sug_name
     ELSE safe_filename(PathStem(sug_name) \o ext)

\* lines 358-360
NormalizeFolder(reply, allowed_folders) ==
  IF reply.folder_kind = "str" /\ reply.folder \in Range(allowed_folders)
  THEN reply.folder ELSE FALLBACK_FOLDER

\* lines 362-367: float() of a value it rejects raises and gives 0.0; then
\* max(0.0, min(1.0, conf)).  min(1.0, conf) is conf only when conf < 1.0 and
\* max(0.0, x) is x only when x > 0.0; every comparison with a NaN is false.
NormalizeConfidence(reply) ==
  LET nan == reply.conf_kind = "nan"
      conf == IF reply.conf_kind \in {"num", "bool"} THEN reply.conf ELSE 0
      lo == IF ~nan /\ conf < 100 THEN conf ELSE 100
  IN IF lo > 0 THEN lo ELSE 0

\* requests.post / raise_for_status raise; so does re.sub on a non-string
\* suggested_name (line 354, outside any try)
OllamaRaises(reply) ==
  \/ reply.kind = "raise"
  \/ LET obj == ParseResponse(reply.out)
     IN obj.kind = "obj" /\ obj.name_kind = "other"

\* the value ollama_suggest returns when it does not raise
ollama_suggest(filename, ext, reply, allowed_folders) ==
  LET obj == ParseResponse(reply.out)
  IN IF obj.kind \in {"nojson", "badjson"}
     THEN Fallback(filename)
     ELSE [suggested_name |->
             NormalizeName(IF obj.name_kind = "str" THEN obj.name
                           ELSE filename, ext),
           suggested_folder |-> NormalizeFolder(obj, allowed_folders),
           confidence |-> NormalizeConfidence(obj)]

\* --------------------------------------------------------------- registry
DefaultState ==
  [root |-> "", mode |-> DEFAULT_MODE, items |-> <<>>,
   allowed_folders |-> ALLOWED_FOLDERS]
NoState == [root |-> "", mode |-> "", items |-> <<>>, allowed_folders |-> <<>>]

NewItem_Approved(rel) ==
  [rel |-> rel, name |-> rel[2], ext |-> LowerSeq(PathSuffix(rel[2])),
   status |-> "candidate", approved |-> TRUE, preview |-> <<>>,
   suggestion |-> <<>>, edited_name |-> <<>>, edited_folder |-> "",
   done_dest |-> <<>>]

\* lines 501-513: the record scan creates for the file at relative path rel
NewItem(rel) ==
  [rel |-> rel, name |-> rel[2], ext |-> LowerSeq(PathSuffix(rel[2])),
   status |-> "candidate", approved |-> FALSE, preview |-> <<>>,
   suggestion |-> <<>>, edited_name |-> <<>>, edited_folder |-> "",
   done_dest |-> <<>>]

\* extract_preview: the content kind is chosen by extension; it never raises
TextExts == {<<".", "m", "d">>}
extract_preview(ext) ==
  [kind |-> IF ext \in TextExts THEN "text" ELSE "metadata"]

Rels(items) == {items[i].rel : i \in DOMAIN items}
IndexOf(items, rel) == CHOOSE i \in DOMAIN items : items[i].rel = rel

\* the state file: a complete JSON document, or what open(..., "w") and a
\* partly flushed json.dump leave behind
Complete(reg) == [kind |-> "complete", reg |-> reg]
Truncated == [kind |-> "empty", reg |-> NoState]
PartlyWritten == [kind |-> "partial", reg |-> NoState]

\* ------------------------------------------------------------------ state
VARIABLES
  stateFile,  \* content of organizer_state.json
  files,      \* the filesystem: path -> file data, for every regular file
  dirs,       \* the directories that exist, as <<root, folder>>
  log,        \* organizer_actions_log.jsonl, one record per line
  pc,         \* per request thread: where its handler stands
  op,         \* per request thread: the handler it runs
  st,         \* per request thread: the handler's `state` dictionary
  loaded,     \* per request thread: what load_state() returned to it
  cur,        \* per request thread: the handler's loop variables
  results,    \* per request thread: apply()'s `results` list
  resp,       \* per request thread: the response of its last request
  attempts,   \* number of calls of apply_change so far
  scans,      \* number of scan requests so far
  requests    \* number of requests the threaded server has taken so far

vars == <<stateFile, files, dirs, log, pc, op, st, loaded, cur, results, resp,
          attempts, scans, requests>>
world == <<stateFile, files, dirs, log, attempts, scans, requests>>
outside == <<stateFile, files, dirs, log, attempts, scans>>

NoCur ==
  [k |-> 0, limit |-> 0, suggested |-> 0, out |-> <<>>, dest_folder |-> "",
   new_name |-> <<>>, dest |-> <<>>, ok |-> FALSE, err |-> ""]
NoResp == [op |-> "none", code |-> 0]

\* no request has been taken yet
NoRequests ==
  /\ dirs = InitialDirs
  /\ log = <<>>
  /\ pc = [t \in Threads |-> "idle"]
  /\ op = [t \in Threads |-> "none"]
  /\ st = [t \in Threads |-> NoState]
  /\ loaded = [t \in Threads |-> NoState]
  /\ cur = [t \in Threads |-> NoCur]
  /\ results = [t \in Threads |-> <<>>]
  /\ resp = [t \in Threads |-> NoResp]
  /\ attempts = 0
  /\ scans = 0
  /\ requests = 0

\* everything but the state file, as the program finds it when it starts
InitWorld == files \in InitialFiles /\ NoRequests

\* lines 880-883: a first start writes the default registry
Init == stateFile = Complete(DefaultState) /\ InitWorld

Quiescent == \A t \in Threads : pc[t] = "idle"

\* When a request is taken up: the single worker (serial) takes the next one
\* when the last has been answered; the threaded server takes it at once.
Admit(serial) ==
  IF serial
  THEN Quiescent /\ UNCHANGED requests
  ELSE requests < MaxConcRequests /\ requests' = requests + 1

\* ------------------------------------------------------- load and response
\* load_state() at the top of a handler.  json.load raises on a file that is
\* not a complete document, and the request ends with a 500.
Load(t, o, first, c) ==
  /\ pc[t] = "idle"
  /\ IF stateFile.kind = "complete"
     THEN /\ pc' = [pc EXCEPT ![t] = first]
          /\ op' = [op EXCEPT ![t] = o]
          /\ st' = [st EXCEPT ![t] = stateFile.reg]
          /\ loaded' = [loaded EXCEPT ![t] = stateFile.reg]
          /\ cur' = [cur EXCEPT ![t] = c]
          /\ UNCHANGED resp
     ELSE /\ pc' = [pc EXCEPT ![t] = "respond"]
          /\ op' = [op EXCEPT ![t] = o]
          /\ resp' = [resp EXCEPT ![t] = [op |-> o, code |-> 500]]
          /\ UNCHANGED <<st, loaded, cur>>
  /\ UNCHANGED results

\* the handler returns, or an exception ends it: the response goes out
Finish(t, code) ==
  /\ pc' = [pc EXCEPT ![t] = "respond"]
  /\ resp' = [resp EXCEPT ![t] = [op |-> op[t], code |-> code]]
  /\ UNCHANGED <<op, st, loaded, cur, results>>

\* the request is over and its thread takes the next one
Respond(t) ==
  /\ pc[t] = "respond"
  /\ pc' = [pc EXCEPT ![t] = "idle"]
  /\ op' = [op EXCEPT ![t] = "none"]
  /\ st' = [st EXCEPT ![t] = NoState]
  /\ loaded' = [loaded EXCEPT ![t] = NoState]
  /\ cur' = [cur EXCEPT ![t] = NoCur]
  /\ results' = [results EXCEPT ![t] = <<>>]
  /\ resp' = [resp EXCEPT ![t] = NoResp]
  /\ UNCHANGED world

\* the handler goes on to save_state(state) with the items it has built
ToSave(t, reg) ==
  /\ st' = [st EXCEPT ![t] = reg]
  /\ pc' = [pc EXCEPT ![t] = "save_open"]
  /\ UNCHANGED <<op, loaded, cur, results, resp>>

Begin(t, serial) ==
  /\ Admit(serial)
  /\ \E o \in {"set_root", "set_mode", "bulk_set_status", "preview",
               "update_proposals"} : Load(t, o, o, NoCur)
  /\ UNCHANGED outside

\* ---------------------------------------------------------------- save_state
\* open(STATE_FILE, "w") truncates the file
SaveOpen(t) ==
  /\ pc[t] = "save_open"
  /\ stateFile' = Truncated
  /\ pc' = [pc EXCEPT ![t] = "save_write"]
  /\ UNCHANGED <<files, dirs, log, op, st, loaded, cur, results, resp,
                 attempts, scans, requests>>

\* json.dump writes chunk by chunk; a full buffer is flushed before the end
SavePartial(t) ==
  /\ pc[t] = "save_write"
  /\ stateFile.kind = "empty"
  /\ stateFile' = PartlyWritten
  /\ UNCHANGED <<files, dirs, log, pc, op, st, loaded, cur, results, resp,
                 attempts, scans, requests>>

ResponseCode(o) == IF o = "apply" THEN 200 ELSE 302

\* the with-block closes the file: the whole document is on disk
SaveWrite(t) ==
  /\ pc[t] = "save_write"
  /\ stateFile' = Complete(st[t])
  /\ Finish(t, ResponseCode(op[t]))
  /\ UNCHANGED <<files, dirs, log, attempts, scans, requests>>

\* ------------------------------------------------------- set_root, set_mode
SetRoot(t) ==
  /\ pc[t] = "set_root"
  /\ \E root \in RootInputs : ToSave(t, [st[t] EXCEPT !.root = root])
  /\ UNCHANGED world

CheckedMode_Any(mode) == mode

\* lines 473-475
CheckedMode(mode) == IF mode \in {"move", "copy"} THEN mode ELSE DEFAULT_MODE

SetMode(t) ==
  /\ pc[t] = "set_mode"
  /\ \E mode \in ModeInputs :
       ToSave(t, [st[t] EXCEPT !.mode = CheckedMode(mode)])
  /\ UNCHANGED world

\* ----------------------------------------------------------------------- scan
\* Path(root).exists(): true of a directory and of a regular file alike
RootIsFile(root) ==
  RootAsFile(root) # <<>> /\ RootAsFile(root)[1] \in DOMAIN files
RootExists(root) == <<root, "">> \in dirs \/ RootIsFile(root)

Orderings(S) ==
  {s \in [1..Cardinality(S) -> S] : \A i, j \in DOMAIN s : s[i] = s[j] => i = j}

\* the regular files rglob("*") finds under the root, as relative paths
FilesUnder(root) ==
  {<<p[2], p[3]>> : p \in {q \in DOMAIN files :
                              q[1] = root /\ q[2] \notin EscapingFolders}}

\* lines 491-518: one fresh item per file, in directory order, up to the cap
ScannedItems(order) ==
  [i \in 1..Min(Len(order), MAX_FILES_SCAN) |-> NewItem(order[i])]

BeginScan(t, serial) ==
  /\ Admit(serial)
  /\ scans < MaxScans
  /\ Load(t, "scan", "scan", NoCur)
  /\ scans' = scans + 1
  /\ UNCHANGED <<stateFile, files, dirs, log, attempts>>

Scan(t) ==
  /\ pc[t] = "scan"
  /\ IF st[t].root = ""
     THEN Finish(t, 302)
     ELSE IF ~RootExists(st[t].root)
          THEN Finish(t, 400)
          ELSE \E order \in Orderings(FilesUnder(st[t].root)) :
                 ToSave(t, [st[t] EXCEPT !.items = ScannedItems(order)])
  /\ UNCHANGED world

\* ------------------------------------------------------------ bulk_set_status
UnknownRel == <<"", <<"z">>>>

CheckedStatus_Any(new_status) == new_status

\* lines 616-617
CheckedStatus(new_status) ==
  IF new_status \in {"candidate", "never"} THEN new_status ELSE "candidate"

BulkItem_DoneToo(it, sels, new_status) ==
  IF it.rel \in sels
  THEN [it EXCEPT !.status = new_status, !.approved = FALSE]
  ELSE it

BulkItem_KeepsApproval(it, sels, new_status) ==
  IF it.rel \in sels /\ it.status # "done"
  THEN [it EXCEPT !.status = new_status]
  ELSE it

\* lines 619-622
BulkItem(it, sels, new_status) ==
  IF it.rel \in sels /\ it.status # "done"
  THEN [it EXCEPT !.status = new_status, !.approved = FALSE]
  ELSE it

BulkSetStatus(t) ==
  /\ pc[t] = "bulk_set_status"
  /\ \E new_status \in StatusInputs :
     \E sels \in SUBSET (Rels(st[t].items) \cup {UnknownRel}) :
       ToSave(t, [st[t] EXCEPT !.items =
                    [i \in DOMAIN @ |->
                       BulkItem(@[i], sels, CheckedStatus(new_status))]])
  /\ UNCHANGED world

\* ------------------------------------------------------------------- preview
Preview(t) ==
  /\ pc[t] = "preview"
  /\ \E rel \in Rels(st[t].items) \cup {UnknownRel} :
       IF rel \notin Rels(st[t].items)
       THEN Finish(t, 302)
       ELSE LET i == IndexOf(st[t].items, rel)
                it == st[t].items[i]
            IN IF it.preview = <<>>
               THEN ToSave(t, [st[t] EXCEPT !.items[i].preview =
                                 <<extract_preview(it.ext)>>])
               ELSE Finish(t, 200)
  /\ UNCHANGED world

\* ------------------------------------------------------------------- suggest
\* line 676
ClampLimit(limit) == Max(1, Min(SUGGEST_LIMIT_MAX, limit))

BeginSuggest(t, serial) ==
  /\ Admit(serial)
  /\ \E limit \in LimitInputs :
       Load(t, "suggest", "suggest", [NoCur EXCEPT !.limit = ClampLimit(limit)])
  /\ UNCHANGED outside

NeedsSuggestion_AnyStatus(it) == it.suggestion = <<>>
NeedsSuggestion_Again(it) == it.status = "candidate"

\* lines 686-689: the items the loop does not skip
NeedsSuggestion(it) == it.status = "candidate" /\ it.suggestion = <<>>

AutoApproved_Above(sug) == sug.confidence > AUTO_APPROVE

\* lines 696-699
AutoApproved(sug) == sug.confidence >= AUTO_APPROVE

StoreSuggestion(it, sug) ==
  [it EXCEPT !.preview = IF @ = <<>> THEN <<extract_preview(it.ext)>> ELSE @,
             !.suggestion = <<sug>>,
             !.edited_name = sug.suggested_name,
             !.edited_folder = sug.suggested_folder,
             !.approved = AutoApproved(sug)]

\* what suggest() does when ollama_suggest raises: nothing catches it
AdvisorFailure(t) == Finish(t, 500)

\* one turn of the loop: the next item without a suggestion, one Advisor call
\* answered by one of `replies`
SuggestFrom(t, replies) ==
  /\ pc[t] = "suggest"
  /\ \E i \in DOMAIN st[t].items :
       /\ NeedsSuggestion(st[t].items[i])
       /\ \A j \in 1..(i - 1) : ~NeedsSuggestion(st[t].items[j])
       /\ \E reply \in replies :
            LET it == st[t].items[i]
                sug == ollama_suggest(it.name, it.ext, reply,
                                      st[t].allowed_folders)
                suggested == cur[t].suggested + 1
            IN IF OllamaRaises(reply)
               THEN AdvisorFailure(t)
               ELSE /\ st' = [st EXCEPT ![t].items[i] = StoreSuggestion(it, sug)]
                    /\ cur' = [cur EXCEPT ![t].suggested = suggested,
                                           ![t].k = i, ![t].out = reply.out]
                    /\ pc' = [pc EXCEPT ![t] =
                                IF suggested >= cur[t].limit
                                THEN "save_open" ELSE "suggest"]
                    /\ UNCHANGED <<op, loaded, results, resp>>
  /\ UNCHANGED world

SuggestItem(t) == SuggestFrom(t, AdvisorReplies)

\* the loop runs out of items
SuggestDone(t) ==
  /\ pc[t] = "suggest"
  /\ \A i \in DOMAIN st[t].items : ~NeedsSuggestion(st[t].items[i])
  /\ ToSave(t, st[t])
  /\ UNCHANGED world

\* ------------------------------------------------------------ update_proposals
Reviewable_AnyStatus(it) == it.suggestion # <<>>

\* line 798: the items the loop does not skip
Reviewable(it) == it.status = "candidate" /\ it.suggestion # <<>>

\* line 803: the folder the form sent is stored as it is
EditedFolder(new_folder, allowed_folders) == new_folder

\* lines 800-804; a form field that is absent keeps the stored value
UpdateItem(it, approved_list, rows, allowed_folders) ==
  IF ~Reviewable(it) THEN it
  ELSE LET new_folder == IF rows[it.rel] = <<>> THEN it.edited_folder
                         ELSE rows[it.rel][1].folder
           new_name == IF rows[it.rel] = <<>> THEN it.edited_name
                       ELSE rows[it.rel][1].name
       IN [it EXCEPT !.approved = (it.rel \in approved_list),
                     !.edited_folder = EditedFolder(new_folder, allowed_folders),
                     !.edited_name = safe_filename(new_name)]

Optional(S) == {<<>>} \cup {<<x>> : x \in S}

UpdateProposals(t) ==
  /\ pc[t] = "update_proposals"
  /\ LET rels == Rels(st[t].items)
     IN \E approved_list \in SUBSET rels :
        \E rows \in [rels -> Optional(RowEdits)] :
          ToSave(t, [st[t] EXCEPT !.items =
                       [i \in DOMAIN @ |->
                          UpdateItem(@[i], approved_list, rows,
                                     st[t].allowed_folders)]])
  /\ UNCHANGED world

\* --------------------------------------------------------------------- apply
BeginApply(t, serial) ==
  /\ Admit(serial)
  /\ attempts < MaxAttempts
  /\ Load(t, "apply", "apply", [NoCur EXCEPT !.k = 1])
  /\ UNCHANGED outside

Eligible_Unapproved(it) == it.status = "candidate"

\* lines 821-824: the items the loop does not skip
Eligible(it) == it.status = "candidate" /\ it.approved

SrcPath(root, rel) == <<root, rel[1], rel[2]>>

\* lines 825-826
DestFolder(it) == IF it.edited_folder # "" THEN it.edited_folder ELSE FALLBACK_FOLDER
NewName(it) == IF it.edited_name # <<>> THEN it.edited_name ELSE it.name

\* the loop reaches the next item it does not skip and calls apply_change
ApplyNext(t) ==
  /\ pc[t] = "apply"
  /\ \E i \in DOMAIN st[t].items :
       /\ i >= cur[t].k
       /\ Eligible(st[t].items[i])
       /\ \A j \in cur[t].k..(i - 1) : ~Eligible(st[t].items[j])
       /\ cur' = [cur EXCEPT ![t] =
                    [@ EXCEPT !.k = i,
                              !.dest_folder = DestFolder(st[t].items[i]),
                              !.new_name = NewName(st[t].items[i]),
                              !.dest = <<>>, !.ok = FALSE, !.err = ""]]
  /\ pc' = [pc EXCEPT ![t] = "apply_mkdir"]
  /\ attempts' = attempts + 1
  /\ UNCHANGED <<stateFile, files, dirs, log, op, st, loaded, results, resp,
                 scans, requests>>

\* the loop runs out of items
ApplyDone(t) ==
  /\ pc[t] = "apply"
  /\ \A i \in DOMAIN st[t].items : i >= cur[t].k => ~Eligible(st[t].items[i])
  /\ ToSave(t, st[t])
  /\ UNCHANGED world

\* mkdir(parents=True, exist_ok=True) raises when a component is a file
MkdirRaises(root, folder) ==
  \/ RootIsFile(root)
  \/ /\ FirstComponent(folder) # <<>>
     /\ <<root, "", FirstComponent(folder)>> \in DOMAIN files

\* line 382 is outside the try block: the exception leaves apply()
MkdirFailure(t) == Finish(t, 500)

ApplyMkdir(t) ==
  /\ pc[t] = "apply_mkdir"
  /\ IF MkdirRaises(st[t].root, cur[t].dest_folder)
     THEN /\ MkdirFailure(t)
          /\ UNCHANGED dirs
     ELSE /\ dirs' = dirs \cup {<<st[t].root, "">>,
                                <<st[t].root, cur[t].dest_folder>>}
          /\ pc' = [pc EXCEPT ![t] = "apply_check"]
          /\ cur' = [cur EXCEPT ![t].dest =
                       <<st[t].root, cur[t].dest_folder, cur[t].new_name>>]
          /\ UNCHANGED <<op, st, loaded, results, resp>>
  /\ UNCHANGED <<stateFile, files, log, attempts, scans, requests>>

DestExists_Unchecked(dest) == FALSE

\* line 385
DestExists(dest) == NEVER_OVERWRITE /\ dest \in DOMAIN files

ApplyCheck(t) ==
  /\ pc[t] = "apply_check"
  /\ IF DestExists(cur[t].dest)
     THEN /\ cur' = [cur EXCEPT ![t].ok = FALSE, ![t].err = ERR_DEST_EXISTS]
          /\ pc' = [pc EXCEPT ![t] = "apply_log"]
     ELSE /\ pc' = [pc EXCEPT ![t] = "apply_relocate"]
          /\ UNCHANGED cur
  /\ UNCHANGED <<stateFile, files, dirs, log, op, st, loaded, results, resp,
                 attempts, scans, requests>>

Without(f, p) == [q \in DOMAIN f \ {p} |-> f[q]]

Relocated_KeepsSource(mode, src, dest) == (dest :> files[src]) @@ files

\* shutil.copy2 / shutil.move: the destination gets the source's data, and a
\* file already there is replaced
Relocated(mode, src, dest) ==
  IF mode = "copy"
  THEN (dest :> files[src]) @@ files
  ELSE (dest :> files[src]) @@ Without(files, src)

\* lines 388-395
ApplyRelocate(t) ==
  /\ pc[t] = "apply_relocate"
  /\ LET src == SrcPath(st[t].root, st[t].items[cur[t].k].rel)
     IN IF src \in DOMAIN files
        THEN /\ files' = Relocated(st[t].mode, src, cur[t].dest)
             /\ cur' = [cur EXCEPT ![t].ok = TRUE, ![t].err = ""]
        ELSE /\ cur' = [cur EXCEPT ![t].ok = FALSE,
                                   ![t].err = "FileNotFoundError"]
             /\ UNCHANGED files
  /\ pc' = [pc EXCEPT ![t] = "apply_log"]
  /\ UNCHANGED <<stateFile, dirs, log, op, st, loaded, results, resp,
                 attempts, scans, requests>>

ResultRow(t) ==
  [rel |-> st[t].items[cur[t].k].rel, dest |-> cur[t].dest, ok |-> cur[t].ok,
   err |-> cur[t].err, mode |-> st[t].mode]

LogEntry(t) ==
  [action |-> "apply", mode |-> st[t].mode,
   src |-> SrcPath(st[t].root, st[t].items[cur[t].k].rel),
   dest |-> cur[t].dest, ok |-> cur[t].ok, error |-> cur[t].err]

\* lines 829-838: the outcome row, then one line appended to the log
ApplyLog(t) ==
  /\ pc[t] = "apply_log"
  /\ results' = [results EXCEPT ![t] = Append(@, ResultRow(t))]
  /\ log' = Append(log, LogEntry(t))
  /\ pc' = [pc EXCEPT ![t] = "apply_mark"]
  /\ UNCHANGED <<stateFile, files, dirs, op, st, loaded, cur, resp, attempts,
                 scans, requests>>

MarksDone_Always(ok) == TRUE

\* line 840
MarksDone(ok) == ok

\* lines 840-845, and on to the next item
ApplyMark(t) ==
  /\ pc[t] = "apply_mark"
  /\ st' = [st EXCEPT ![t].items[cur[t].k] =
              IF MarksDone(cur[t].ok)
              THEN [@ EXCEPT !.status = "done", !.approved = FALSE,
                             !.done_dest = <<cur[t].dest>>]
              ELSE @]
  /\ cur' = [cur EXCEPT ![t].k = @ + 1]
  /\ pc' = [pc EXCEPT ![t] = "apply"]
  /\ UNCHANGED <<stateFile, files, dirs, log, op, loaded, results, resp,
                 attempts, scans, requests>>

\* ------------------------------------------------------------ specifications
Handler(t, serial) ==
  \/ Begin(t, serial) \/ SetRoot(t) \/ SetMode(t) \/ BulkSetStatus(t)
  \/ Preview(t) \/ UpdateProposals(t)
  \/ BeginScan(t, serial) \/ Scan(t)
  \/ BeginSuggest(t, serial) \/ SuggestItem(t) \/ SuggestDone(t)
  \/ BeginApply(t, serial) \/ ApplyNext(t) \/ ApplyDone(t) \/ ApplyMkdir(t)
  \/ ApplyCheck(t) \/ ApplyRelocate(t) \/ ApplyLog(t) \/ ApplyMark(t)
  \/ SaveOpen(t) \/ SavePartial(t) \/ SaveWrite(t) \/ Respond(t)

\* one request at a time, each run to its response before the next begins
Next == Handler(1, TRUE)
Spec == Init /\ [][Next]_vars

\* A registry left in the state file by an earlier session (Spec reaches it:
\* set_root, scan, suggest, update_proposals): both items reviewed,
\* approved and given the same folder and name.
ReviewedItem(rel) ==
  [NewItem(rel) EXCEPT
     !.preview = <<extract_preview(LowerSeq(PathSuffix(rel[2])))>>,
     !.suggestion = <<Fallback(rel[2])>>,
     !.edited_name = safe_filename(NameEdit),
     !.edited_folder = "../outside",
     !.approved = TRUE]
ReviewedState ==
  [DefaultState EXCEPT !.root = "/r",
     !.items = <<ReviewedItem(<<"", NameWork>>), ReviewedItem(<<"", NameA>>)>>]

\* the development server answers each request on a thread of its own
ConcInit == stateFile = Complete(ReviewedState) /\ InitWorld
ConcNext == \E t \in Threads : Handler(t, FALSE)
ConcSpec == ConcInit /\ [][ConcNext]_vars

\* the registry ConcInit starts from is one the program writes
ReviewedStateSaved == stateFile = Complete(ReviewedState)

\* A later session: the state file of the earlier one is found (line 882), and
\* the root it names has since been removed, or was the path of a file.
\* In that registry the user had cleared the folder and name fields of the
\* second item (update_proposals stores "" and safe_filename("") = "").
StaleRoots == {"/q", "/r/Work"}
ClearedItem(rel) ==
  [ReviewedItem(rel) EXCEPT !.edited_name = safe_filename(<<>>),
                            !.edited_folder = ""]
RestartState(root) ==
  [DefaultState EXCEPT !.root = root,
     !.items = <<ReviewedItem(<<"", NameWork>>), ClearedItem(<<"", NameA>>)>>]
RestartInit ==
  /\ stateFile \in {Complete(RestartState(r)) : r \in StaleRoots}
  /\ InitWorld
\* a short session: one request after another, MaxConcRequests of them
RestartNext == Handler(1, FALSE)
RestartSpec == RestartInit /\ [][RestartNext]_vars

\* ------------------------------------------------------------------ claims
ApplyStages ==
  {"apply", "apply_mkdir", "apply_check", "apply_relocate", "apply_log",
   "apply_mark"}
\* apply_change has been called for the current item and has not returned
InFlight(t) ==
  pc[t] \in {"apply_mkdir", "apply_check", "apply_relocate", "apply_log"}
ApprovedCandidate(it) == it.status = "candidate" /\ it.approved = TRUE
Refused(row) == row.err = ERR_DEST_EXISTS
\* the fields review and apply work on
Reviewed(it) ==
  <<it.rel, it.status, it.approved, it.edited_name, it.edited_folder,
    it.suggestion, it.done_dest>>

\* C1: when apply reaches an approved candidate whose destination path holds a
\* file, the attempt fails with the overwrite refusal, no file is touched (the
\* destination and the source keep their data), a failure row and a failure
\* log line are recorded, and the item stays as it was (candidate); this
\* includes a destination created by an earlier item of the same batch.
C1_RefusalStep(t) ==
  /\ (pc[t] = "apply_check" /\ pc'[t] # pc[t] /\ cur[t].dest \in DOMAIN files)
       => /\ pc'[t] = "apply_log"
          /\ cur'[t].ok = FALSE /\ Refused(cur'[t])
          /\ files' = files /\ st'[t] = st[t]
  /\ (pc[t] = "apply_log" /\ pc'[t] # pc[t] /\ Refused(cur[t]))
       => /\ files' = files /\ st'[t] = st[t]
          /\ Len(results'[t]) = Len(results[t]) + 1
          /\ LET row == results'[t][Len(results'[t])]
             IN row.ok = FALSE /\ Refused(row)
                /\ row.rel = st[t].items[cur[t].k].rel
          /\ Len(log') = Len(log) + 1
          /\ log'[Len(log')].ok = FALSE /\ log'[Len(log')].dest = cur[t].dest
  /\ (pc[t] = "apply_mark" /\ pc'[t] # pc[t] /\ Refused(cur[t]))
       => /\ files' = files /\ st'[t] = st[t]
          /\ st[t].items[cur[t].k].status = "candidate"
C1_RefusedUnchanged ==
  \A t \in Threads :
    op[t] = "apply" =>
      \A j \in DOMAIN results[t] :
        Refused(results[t][j]) =>
          \E i \in DOMAIN st[t].items :
            /\ st[t].items[i].rel = results[t][j].rel
            /\ st[t].items[i] = loaded[t].items[i]
            /\ st[t].items[i].status = "candidate"
C1_OverwriteSafe ==
  [][(\A t \in Threads : C1_RefusalStep(t)) /\ C1_RefusedUnchanged']_vars
\* a batch whose second item was refused a destination its first item created
C1_Witness ==
  \E t \in Threads :
    /\ Len(results[t]) = 2
    /\ results[t][1].ok /\ Refused(results[t][2])
    /\ results[t][1].dest = results[t][2].dest
    /\ results[t][1].dest \in DOMAIN files
    /\ pc[t] = "save_open"

\* C2: an apply batch calls apply_change for exactly the approved candidates
\* of the registry it loaded, among the items its loop has reached, each once;
\* every other item keeps all its fields, and files and the audit log change
\* only in the attempt on an approved candidate.
C2_Reached(t) ==
  IF pc[t] = "apply" THEN cur[t].k - 1
  ELSE IF pc[t] \in ApplyStages THEN cur[t].k
  ELSE IF resp[t].code = 500 THEN cur[t].k
  ELSE Len(loaded[t].items)
C2_Attempted(t) ==
  {results[t][j].rel : j \in DOMAIN results[t]}
    \cup (IF InFlight(t) \/ (pc[t] = "respond" /\ resp[t].code = 500
                              /\ cur[t].k \in DOMAIN st[t].items)
          THEN {st[t].items[cur[t].k].rel} ELSE {})
C2_Selection ==
  \A t \in Threads :
    (op[t] = "apply" /\ loaded[t] # NoState) =>
      /\ Len(st[t].items) = Len(loaded[t].items)
      /\ \A i \in DOMAIN loaded[t].items :
           ~ApprovedCandidate(loaded[t].items[i])
             => st[t].items[i] = loaded[t].items[i]
      /\ C2_Attempted(t) =
           {loaded[t].items[i].rel :
              i \in {n \in 1..C2_Reached(t) :
                       ApprovedCandidate(loaded[t].items[n])}}
      /\ \A i, j \in DOMAIN results[t] :
           results[t][i].rel = results[t][j].rel => i = j
C2_Effects ==
  (files' # files \/ log' # log) =>
    \E t \in Threads :
      /\ pc[t] \in {"apply_relocate", "apply_log"}
      /\ ApprovedCandidate(loaded[t].items[cur[t].k])
      /\ log' # log =>
           /\ log' = Append(log, log'[Len(log')])
           /\ log'[Len(log')].src =
                SrcPath(loaded[t].root, loaded[t].items[cur[t].k].rel)
      /\ \A p \in (DOMAIN files \cup DOMAIN files') :
           (p \notin DOMAIN files \/ p \notin DOMAIN files'
              \/ files[p] # files'[p])
             => p \in {cur[t].dest,
                       SrcPath(loaded[t].root, loaded[t].items[cur[t].k].rel)}
C3_Logged(it) ==
  it.status = "done" =>
    /\ it.done_dest # <<>>
    /\ \E n \in DOMAIN log :
         /\ log[n].ok
         /\ log[n].dest = it.done_dest[1]
         /\ <<log[n].src[2], log[n].src[3]>> = it.rel
C3_DoneLogged ==
  /\ stateFile.kind = "complete" =>
       \A i \in DOMAIN stateFile.reg.items : C3_Logged(stateFile.reg.items[i])
  /\ \A t \in Threads : \A i \in DOMAIN st[t].items : C3_Logged(st[t].items[i])
C3_OkIsRelocation ==
  \A t \in Threads :
    /\ (cur'[t].ok /\ ~cur[t].ok) =>
         /\ pc[t] = "apply_relocate"
         /\ LET src == SrcPath(st[t].root, st[t].items[cur[t].k].rel)
            IN /\ src \in DOMAIN files
               /\ cur[t].dest \in DOMAIN files'
               /\ files'[cur[t].dest] = files[src]
    /\ (pc[t] = "apply_log" /\ pc'[t] # pc[t]) =>
         log'[Len(log')].ok = cur[t].ok
C3_DoneAfterSuccess == [][C3_OkIsRelocation /\ C3_DoneLogged']_vars
\* the state file records a done item
C3_Witness ==
  /\ stateFile.kind = "complete"
  /\ \E i \in DOMAIN stateFile.reg.items :
       stateFile.reg.items[i].status = "done"

\* C4: a failure on one item never ends an apply batch: the batch answers
\* with a row for every approved candidate it loaded, and has saved.
C4_FailureIsolated ==
  \A t \in Threads :
    (op[t] = "apply" /\ pc[t] = "respond" /\ loaded[t] # NoState) =>
      /\ resp[t].code = 200
      /\ stateFile = Complete(st[t])
      /\ {results[t][j].rel : j \in DOMAIN results[t]} =
           {loaded[t].items[i].rel :
              i \in {n \in DOMAIN loaded[t].items :
                       ApprovedCandidate(loaded[t].items[n])}}

\* C5: the audit log has one line per apply attempt: its length is the
\* number of calls of apply_change that have ended.
C5_LogComplete ==
  Len(log) + Cardinality({t \in Threads : InFlight(t)}) = attempts

\* C6: once an item is done, no handler but scan changes its status,
\* approval, edits, suggestion or destination: what a handler holds, and then
\* saves, for an item it loaded as done is what it loaded.
C6_Held(t) ==
  (op[t] \notin {"none", "scan"} /\ loaded[t] # NoState) =>
    \A i \in DOMAIN loaded[t].items :
      loaded[t].items[i].status = "done" =>
        /\ i \in DOMAIN st[t].items
        /\ Reviewed(st[t].items[i]) = Reviewed(loaded[t].items[i])
C6_LoadSave(t) ==
  /\ (pc[t] = "idle" /\ pc'[t] \notin {"idle", "respond"}) =>
       (loaded'[t] = stateFile.reg /\ st'[t] = stateFile.reg)
  /\ (pc[t] = "save_write" /\ pc'[t] # pc[t]) => stateFile' = Complete(st[t])
  /\ (stateFile' # stateFile) => \E u \in Threads : pc[u] \in {"save_open", "save_write"}
C6_DoneIsTerminal ==
  [][\A t \in Threads : C6_LoadSave(t) /\ C6_Held(t)']_vars
\* a bulk re-tag that changed the registry while it held a done item
C6_Witness ==
  \E t \in Threads :
    /\ op[t] = "bulk_set_status" /\ pc[t] = "save_open"
    /\ st[t] # loaded[t]
    /\ \E i \in DOMAIN loaded[t].items : loaded[t].items[i].status = "done"

\* C7: every item with a suggestion has an edited_folder of the taxonomy (the
\* fallback bucket is its last entry), in memory and in the state file.
C7_InTaxonomy(it) ==
  it.suggestion # <<>> =>
    it.edited_folder \in Range(ALLOWED_FOLDERS) \cup {FALLBACK_FOLDER}
C7_FolderInTaxonomy ==
  /\ stateFile.kind = "complete" =>
       \A i \in DOMAIN stateFile.reg.items :
         C7_InTaxonomy(stateFile.reg.items[i])
  /\ \A t \in Threads :
       \A i \in DOMAIN st[t].items : C7_InTaxonomy(st[t].items[i])

\* C8: a failed Advisor call never ends a suggestion batch: the batch answers
\* with its redirect after saving what it produced.
C8_AdvisorFailureIsolated ==
  \A t \in Threads :
    (op[t] = "suggest" /\ pc[t] = "respond" /\ loaded[t] # NoState) =>
      /\ resp[t].code = 302
      /\ stateFile = Complete(st[t])

\* C9: handlers do not overlap, so a handler's save never replaces a registry
\* that another handler saved after this one loaded (no update is lost).
C9_NoLostUpdate ==
  [][\A t \in Threads :
       (pc[t] = "save_open" /\ pc'[t] = "save_write"
          /\ stateFile.kind = "complete")
         => stateFile = Complete(loaded[t])]_vars

\* C10: at every instant the state file holds a complete registry.
C10_AtomicSave == stateFile.kind = "complete"

\* The normalization contract on its own: a registry of one scanned file, and
\* suggestion batches whose Advisor call is answered by any of the responses
\* below.
LongName(n) == [i \in 1..n |-> "x"]
ExtMd == <<".", "m", "d">>
SuggestedNames ==
  { NameN,
    <<"b">>,
    <<"b", ".", "t">>,
    NameEdit,
    <<>>,
    <<"a", "/", "b", ".", "m", "d">>,
    <<" ", "a", " ", " ", "b", " ">>,
    LongName(MAX_NAME_LEN - Len(ExtMd)) \o ExtMd,
    LongName(MAX_NAME_LEN - 1) \o ExtMd,
    LongName(MAX_NAME_LEN + 1) }
SuggestedFolders ==
  { <<"str", "Work/IT">>, <<"str", "Random/NotAllowed">>, <<"str", "">>,
    <<"other", "">>, <<"missing", "">> }
Confidences ==
  { <<"num", 0 - 5>>, <<"num", 0>>, <<"num", 74>>, <<"num", 75>>,
    <<"num", 76>>, <<"num", 100>>, <<"num", 150>>, <<"bool", 100>>,
    <<"nan", 0>>, <<"str", 0>>, <<"missing", 0>> }
AdvisorObjects ==
  {Reply("str", n, "str", "Work/IT", "num", 90) : n \in SuggestedNames}
    \cup {Reply("str", NameN, f[1], f[2], "num", 90) : f \in SuggestedFolders}
    \cup {Reply("str", NameN, "str", "Work/IT", c[1], c[2]) : c \in Confidences}
    \cup {NoFields, Reply("other", <<>>, "str", "Work/IT", "num", 90)}
AdvisorTexts ==
  { <<>>, <<Junk>>, <<Open>>, <<Close>>, <<Close, Junk, Open>>,
    <<Open, Junk, Close>>, <<Open, Close>>,
    <<Junk>> \o Object(GoodReply) \o <<Junk>>,
    <<Junk, Close>> \o Object(GoodReply),
    Object(GoodReply) \o <<Junk, Close>>,
    Object(GoodReply) \o <<Junk>> \o Object(NoFields) }
AdvisorResponses ==
  {Raise} \cup {Text(Object(r)) : r \in AdvisorObjects}
          \cup {Text(out) : out \in AdvisorTexts}

ScannedNames == {NameA, NameWork, NameN}
AdvisorInit ==
  /\ \E n \in ScannedNames :
       /\ stateFile = Complete([DefaultState EXCEPT
                                  !.root = "/r",
                                  !.items = <<NewItem(<<"", n>>)>>])
       /\ files = (<<"/r", "", n>> :> "A")
  /\ NoRequests
SuggestAny(t) == SuggestFrom(t, AdvisorResponses)
AdvisorNext ==
  \/ BeginSuggest(1, TRUE) \/ SuggestAny(1) \/ SuggestDone(1)
  \/ SaveOpen(1) \/ SavePartial(1) \/ SaveWrite(1) \/ Respond(1)
AdvisorSpec == AdvisorInit /\ [][AdvisorNext]_vars

\* a configured root that is not a directory that can be enumerated
BadRoot(root) == root # "" /\ <<root, "">> \notin dirs
ScanAnswered(t) == op[t] = "scan" /\ pc[t] = "respond" /\ loaded[t] # NoState

\* C11: a scan whose configured root is missing or is not a directory answers
\* with an error, and the state file holds the registry the scan loaded.
C11_ScanFailsFast ==
  \A t \in Threads :
    (ScanAnswered(t) /\ BadRoot(loaded[t].root)) =>
      /\ resp[t].code = 400
      /\ stateFile = Complete(loaded[t])
\* the part of C11 the code keeps: a root that does not exist at all
C11_MissingRootRefused ==
  \A t \in Threads :
    (ScanAnswered(t) /\ BadRoot(loaded[t].root) /\ ~RootIsFile(loaded[t].root)) =>
      /\ resp[t].code = 400
      /\ stateFile = Complete(loaded[t])

\* C12: the item set a scan stores and saves is brand new: one item per
\* regular file under the root (at most MAX_FILES_SCAN of them), under distinct
\* relative paths, each a candidate, not approved, with no preview, no
\* suggestion, no edits and no destination, whatever the registry held before.
C12_Fresh(it) ==
  /\ it.status = "candidate" /\ it.approved = FALSE
  /\ it.preview = <<>> /\ it.suggestion = <<>>
  /\ it.edited_name = <<>> /\ it.edited_folder = ""
  /\ it.done_dest = <<>>
C12_UnderRoot(root) ==
  {<<p[2], p[3]>> : p \in {q \in DOMAIN files :
                              q[1] = root /\ q[2] \notin EscapingFolders}}
C12_Stored(t) ==
  \/ pc[t] \in {"save_open", "save_write"}
  \/ pc[t] = "respond" /\ resp[t].code = 302 /\ loaded[t].root # ""
C12_ScanResult ==
  \A t \in Threads :
    (op[t] = "scan" /\ C12_Stored(t)) =>
      LET items == st[t].items
          under == C12_UnderRoot(loaded[t].root)
      IN /\ Len(items) = Min(Cardinality(under), 5000)
         /\ \A i, j \in DOMAIN items : items[i].rel = items[j].rel => i = j
         /\ \A i \in DOMAIN items : items[i].rel \in under /\ C12_Fresh(items[i])
         /\ Cardinality(under) <= 5000 => Rels(items) = under
         /\ st[t] = [loaded[t] EXCEPT !.items = items]
         /\ pc[t] = "respond" => stateFile = Complete(st[t])
\* a rescan answered: the registry it loaded held approved, edited items with
\* suggestions for files that are still there
C12_Witness ==
  \E t \in Threads :
    /\ op[t] = "scan" /\ pc[t] = "respond" /\ resp[t].code = 302
    /\ stateFile = Complete(st[t])
    /\ Len(st[t].items) = 2
    /\ \A i \in DOMAIN loaded[t].items :
         /\ loaded[t].items[i].approved /\ loaded[t].items[i].suggestion # <<>>
         /\ loaded[t].items[i].rel \in Rels(st[t].items)

\* C13: an item on which a suggestion batch stored a suggestion has its
\* edited name and folder equal to the suggested ones, and is approved exactly
\* when the suggestion's confidence is at least 0.75.
C13_Initialized(it) ==
  it.suggestion # <<>> =>
    LET sug == it.suggestion[1]
    IN /\ it.edited_name = sug.suggested_name
       /\ it.edited_folder = sug.suggested_folder
       /\ it.approved = (sug.confidence >= 75)
C13_FirstSuggestion ==
  /\ \A t \in Threads :
       \A i \in DOMAIN st[t].items : C13_Initialized(st[t].items[i])
  /\ stateFile.kind = "complete" =>
       \A i \in DOMAIN stateFile.reg.items :
         C13_Initialized(stateFile.reg.items[i])
\* a saved suggestion with confidence exactly 0.75, approved
C13_Witness ==
  /\ stateFile.kind = "complete"
  /\ \E i \in DOMAIN stateFile.reg.items :
       LET it == stateFile.reg.items[i]
       IN /\ it.suggestion # <<>>
          /\ it.suggestion[1].confidence = 75
          /\ it.approved

\* a suggestion batch has stored the suggestion made from the response cur.out
\* on item cur.k
Suggested(t) == op[t] = "suggest" /\ cur[t].suggested > 0

\* C14: the stored confidence lies in [0, 1]: a number below 0 gives 0, one
\* above 1 gives 1, one in between is kept, and a confidence that is missing
\* or is not a number gives 0 and no approval.
C14_ConfidenceClamped ==
  \A t \in Threads :
    Suggested(t) =>
      LET it == st[t].items[cur[t].k]
          obj == ParseResponse(cur[t].out)
          conf == it.suggestion[1].confidence
      IN /\ conf \in 0..100
         /\ (obj.kind = "obj" /\ obj.conf_kind = "num") =>
              conf = (IF obj.conf < 0 THEN 0
                      ELSE IF obj.conf > 100 THEN 100 ELSE obj.conf)
         /\ (obj.kind = "obj" /\ obj.conf_kind # "num") =>
              (conf = 0 /\ ~it.approved)
\* the part of C14 the code keeps: the range, and the clamp of numbers
C14_InRange ==
  \A t \in Threads :
    Suggested(t) =>
      LET obj == ParseResponse(cur[t].out)
          conf == st[t].items[cur[t].k].suggestion[1].confidence
      IN /\ conf \in 0..100
         /\ (obj.kind = "obj" /\ obj.conf_kind = "num") =>
              conf = (IF obj.conf < 0 THEN 0
                      ELSE IF obj.conf > 100 THEN 100 ELSE obj.conf)
         /\ (obj.kind = "obj" /\ obj.conf_kind \in {"str", "missing"}) =>
              (conf = 0 /\ ~st[t].items[cur[t].k].approved)

\* C15: the stored suggested name ends with the extension of the original
\* file name (compared without regard to case, as the code compares).
C15_KeepsExtension(it) ==
  EndsWith(LowerSeq(it.suggestion[1].suggested_name),
           LowerSeq(PathSuffix(it.name)))
C15_ExtensionPreserved ==
  \A t \in Threads : Suggested(t) => C15_KeepsExtension(st[t].items[cur[t].k])
\* the part of C15 the code keeps: names the length bound does not cut
C15_RawName(t) ==
  LET obj == ParseResponse(cur[t].out)
  IN IF obj.kind = "obj" /\ obj.name_kind = "str" THEN obj.name
     ELSE st[t].items[cur[t].k].name
C15_UncutPreserved ==
  \A t \in Threads :
    (Suggested(t)
       /\ Len(C15_RawName(t)) + Len(st[t].items[cur[t].k].ext) <= 180)
      => C15_KeepsExtension(st[t].items[cur[t].k])

\* C16: update_proposals changes the edited name, the edited folder and the
\* approval of candidates that have a suggestion, and nothing else: every
\* other item (never, done, or without a suggestion) is held and saved exactly
\* as it was loaded, whatever the form submitted for it.
C16_Editable(it) == it.status = "candidate" /\ it.suggestion # <<>>
C16_EditsOnlyReviewable ==
  \A t \in Threads :
    (op[t] = "update_proposals" /\ loaded[t] # NoState) =>
      /\ st[t] = [loaded[t] EXCEPT !.items = st[t].items]
      /\ Len(st[t].items) = Len(loaded[t].items)
      /\ \A i \in DOMAIN loaded[t].items :
           IF C16_Editable(loaded[t].items[i])
           THEN st[t].items[i] =
                  [loaded[t].items[i] EXCEPT
                     !.approved = st[t].items[i].approved,
                     !.edited_name = st[t].items[i].edited_name,
                     !.edited_folder = st[t].items[i].edited_folder]
           ELSE st[t].items[i] = loaded[t].items[i]
      /\ pc[t] = "respond" => stateFile = Complete(st[t])
\* a submission answered that changed one item while the registry held a
\* never-tagged item with a suggestion and edits
C16_Witness ==
  \E t \in Threads :
    /\ op[t] = "update_proposals" /\ pc[t] = "respond"
    /\ st[t] # loaded[t]
    /\ \E i \in DOMAIN loaded[t].items :
         /\ loaded[t].items[i].status = "never"
         /\ loaded[t].items[i].suggestion # <<>>

\* C17: an item loaded as never is held, and then saved, exactly as loaded by
\* every handler but bulk_set_status and scan (the preview page may fill its
\* cached preview, and nothing else); no suggestion batch makes its Advisor
\* call for it, and no step changes the file at its path.
C17_Held(t) ==
  (op[t] \notin {"none", "scan", "bulk_set_status"} /\ loaded[t] # NoState) =>
    /\ \A i \in DOMAIN loaded[t].items :
         loaded[t].items[i].status = "never" =>
           /\ i \in DOMAIN st[t].items
           /\ IF op[t] = "preview"
              THEN [st[t].items[i] EXCEPT !.preview = loaded[t].items[i].preview]
                     = loaded[t].items[i]
              ELSE st[t].items[i] = loaded[t].items[i]
    /\ Suggested(t) => loaded[t].items[cur[t].k].status # "never"
    /\ (pc[t] = "respond" /\ resp[t].code \in {200, 302} /\ st[t] # loaded[t])
         => stateFile = Complete(st[t])
C17_FileKept ==
  \A t \in Threads :
    (pc[t] \in ApplyStages /\ pc'[t] # pc[t]) =>
      \A i \in DOMAIN loaded[t].items :
        LET src == SrcPath(loaded[t].root, loaded[t].items[i].rel)
        IN (loaded[t].items[i].status = "never" /\ src \in DOMAIN files) =>
             (src \in DOMAIN files' /\ files'[src] = files[src])
C18_FailedUnchanged ==
  \A t \in Threads :
    (op[t] = "apply" /\ loaded[t] # NoState) =>
      \A j \in DOMAIN results[t] :
        ~results[t][j].ok =>
          \E i \in DOMAIN loaded[t].items :
            /\ loaded[t].items[i].rel = results[t][j].rel
            /\ st[t].items[i] = loaded[t].items[i]
            /\ st[t].items[i].status = "candidate"
            /\ st[t].items[i].approved = TRUE
            /\ st[t].items[i].done_dest = <<>>
            /\ (pc[t] = "respond" /\ resp[t].code = 200) =>
                 (/\ stateFile.kind = "complete"
                  /\ stateFile.reg.items[i] = loaded[t].items[i])
\* a second batch answered after failing on the item the first one failed on
C18_Witness ==
  \E t \in Threads :
    /\ op[t] = "apply" /\ pc[t] = "respond" /\ resp[t].code = 200
    /\ Len(log) = 2 /\ ~log[1].ok /\ ~log[2].ok /\ log[1].src = log[2].src
    /\ Len(results[t]) = 1 /\ ~results[t][1].ok

\* C19 as stated: a successful relocation puts the file at
\* root/edited_folder/edited_name, removes the source in mode move and keeps
\* it in mode copy; the item becomes done, not approved, with that path as its
\* destination; and no item has a destination without a successful apply.
C19_Relocation(t, dest) ==
  LET src == SrcPath(st[t].root, st[t].items[cur[t].k].rel)
  IN (pc[t] = "apply_relocate" /\ cur'[t].ok) =>
       /\ dest \in DOMAIN files' /\ files'[dest] = files[src]
       /\ <<dest[1], dest[2]>> \in dirs
       /\ st[t].mode = "move" => src \notin DOMAIN files'
       /\ st[t].mode = "copy" =>
            (src \in DOMAIN files' /\ files'[src] = files[src])
       /\ \A p \in DOMAIN files \ {src} :
            p \in DOMAIN files' /\ files'[p] = files[p]
C19_Marked(t, dest) ==
  (pc[t] = "apply_mark" /\ pc'[t] # pc[t] /\ cur[t].ok) =>
    st'[t] = [st[t] EXCEPT !.items[cur[t].k] =
                [@ EXCEPT !.status = "done", !.approved = FALSE,
                          !.done_dest = <<dest>>]]
C19_DestOnlyOnSuccess ==
  \A t \in Threads : \A i \in DOMAIN st[t].items :
    st[t].items[i].done_dest # <<>> =>
      /\ st[t].items[i].status = "done"
      /\ \E n \in DOMAIN log :
           log[n].ok /\ log[n].dest = st[t].items[i].done_dest[1]
C19_EditedPath(t) ==
  LET it == st[t].items[cur[t].k]
  IN <<st[t].root, it.edited_folder, it.edited_name>>
C19_SuccessEffect ==
  [][(\A t \in Threads :
        (pc[t] \in {"apply_relocate", "apply_mark"}) =>
          (C19_Relocation(t, C19_EditedPath(t)) /\ C19_Marked(t, C19_EditedPath(t))))
     /\ C19_DestOnlyOnSuccess']_vars

\* C19 amended: the same, with the destination the code resolves: an empty
\* edited folder stands for the fallback bucket, an empty edited name for the
\* original file name.
C19_ResolvedPath(t) ==
  LET it == st[t].items[cur[t].k]
  IN <<st[t].root,
       IF it.edited_folder = "" THEN "_ToSort" ELSE it.edited_folder,
       IF it.edited_name = <<>> THEN it.name ELSE it.edited_name>>
C19_SuccessEffectResolved ==
  [][(\A t \in Threads :
        (pc[t] \in {"apply_relocate", "apply_mark"}) =>
          (C19_Relocation(t, C19_ResolvedPath(t))
             /\ C19_Marked(t, C19_ResolvedPath(t))))
     /\ C19_DestOnlyOnSuccess']_vars
\* a batch answered after relocating an item whose edited name was empty: the
\* file is at the recorded destination, under its original name
C19_Witness ==
  \E t \in Threads :
    /\ op[t] = "apply" /\ pc[t] = "respond" /\ resp[t].code = 200
    /\ stateFile = Complete(st[t])
    /\ \E i \in DOMAIN st[t].items :
         LET it == st[t].items[i]
         IN /\ it.status = "done" /\ it.edited_name = <<>>
            /\ it.done_dest = << <<st[t].root, "_ToSort", it.name>> >>
            /\ it.done_dest[1] \in DOMAIN files
            /\ SrcPath(st[t].root, it.rel) \notin DOMAIN files

\* C20: when the response has no "{" followed by a later "}", or the text from
\* its first "{" to its last "}" is not a JSON object, the stored suggestion is
\* the fallback (original file name, "_ToSort", confidence 0) and the item is
\* not approved; otherwise the suggestion is the one that text alone gives,
\* whatever surrounds it.
C20_Opens(out) == {i \in DOMAIN out : out[i].tok = "{"}
C20_Closes(out) == {i \in DOMAIN out : out[i].tok = "}"}
C20_First(S) == CHOOSE i \in S : \A j \in S : i <= j
C20_Last(S) == CHOOSE i \in S : \A j \in S : j <= i
C20_Delimited(out) ==
  /\ C20_Opens(out) # {} /\ C20_Closes(out) # {}
  /\ C20_First(C20_Opens(out)) < C20_Last(C20_Closes(out))
C20_Outermost(out) ==
  SubSeq(out, C20_First(C20_Opens(out)), C20_Last(C20_Closes(out)))
C20_IsObject(jtxt) ==
  \/ Len(jtxt) = 2
  \/ Len(jtxt) = 3 /\ jtxt[2].tok = "members"
C20_Interpretable(out) ==
  C20_Delimited(out) /\ C20_IsObject(C20_Outermost(out))
C20_FallbackOnBadResponse ==
  \A t \in Threads :
    Suggested(t) =>
      LET it == st[t].items[cur[t].k]
          out == cur[t].out
      IN IF C20_Interpretable(out)
         THEN it.suggestion[1] =
                ollama_suggest(it.name, it.ext, Text(C20_Outermost(out)),
                               st[t].allowed_folders)
         ELSE /\ it.suggestion[1] =
                   [suggested_name |-> it.name, suggested_folder |-> "_ToSort",
                    confidence |-> 0]
              /\ it.edited_folder = "_ToSort"
              /\ it.approved = FALSE
\* a batch answered: braces around text that is not JSON gave the fallback
C20_Witness ==
  \E t \in Threads :
    /\ Suggested(t) /\ pc[t] = "respond" /\ resp[t].code = 302
    /\ cur[t].out = <<Open, Junk, Close>>
    /\ stateFile = Complete(st[t])
    /\ st[t].items[cur[t].k].edited_folder = "_ToSort"
    /\ st[t].items[cur[t].k].suggestion[1].suggested_name
         = st[t].items[cur[t].k].name

\* C21: a suggestion batch holds, and saves, every item that had a suggestion
\* when it was loaded exactly as loaded; it makes its Advisor calls only for
\* candidates without a suggestion, in registry order, for at most `limit` of
\* them, with limit in 1..50.
C21_Unfilled(it) == it.status = "candidate" /\ it.suggestion = <<>>
C21_Filled(t) ==
  {i \in DOMAIN loaded[t].items : st[t].items[i] # loaded[t].items[i]}
C21_SuggestionsCached ==
  \A t \in Threads :
    (op[t] = "suggest" /\ loaded[t] # NoState) =>
      /\ cur[t].limit \in 1..50
      /\ st[t] = [loaded[t] EXCEPT !.items = st[t].items]
      /\ Len(st[t].items) = Len(loaded[t].items)
      /\ \A i \in DOMAIN loaded[t].items :
           loaded[t].items[i].suggestion # <<>> =>
             st[t].items[i] = loaded[t].items[i]
      /\ \A i \in C21_Filled(t) :
           /\ C21_Unfilled(loaded[t].items[i])
           /\ st[t].items[i].suggestion # <<>>
           /\ \A j \in 1..(i - 1) :
                C21_Unfilled(loaded[t].items[j]) => j \in C21_Filled(t)
      /\ Cardinality(C21_Filled(t)) = cur[t].suggested
      /\ cur[t].suggested <= cur[t].limit
      /\ (pc[t] = "suggest") => cur[t].suggested < cur[t].limit
      /\ (pc[t] = "respond" /\ resp[t].code = 302) => stateFile = Complete(st[t])
\* a batch answered: it filled one item and held another whose suggestion the
\* user had since edited and approved
C21_Witness ==
  \E t \in Threads :
    /\ Suggested(t) /\ pc[t] = "respond" /\ resp[t].code = 302
    /\ stateFile = Complete(st[t])
    /\ \E i \in DOMAIN loaded[t].items :
         LET it == loaded[t].items[i]
         IN /\ it.suggestion # <<>> /\ it.approved
            /\ it.edited_folder # it.suggestion[1].suggested_folder
            /\ st[t].items[i] = it

\* C22: a bulk re-tag gives every selected item that is in the registry and
\* not done the requested status (candidate when the request names neither
\* candidate nor never) and approved = false, and changes nothing else: not
\* the other fields of those items, not unselected or done items, not the
\* registry for unknown paths.  Tagging a candidate never and then candidate
\* again gives the same item, unapproved.
C22_Requested(s) == IF s \in {"candidate", "never"} THEN s ELSE "candidate"
C22_Expected(it, sels, s) ==
  IF it.rel \in sels /\ it.status # "done"
  THEN [it EXCEPT !.status = C22_Requested(s), !.approved = FALSE]
  ELSE it
C22_Outcome(items, sels, s) ==
  [i \in DOMAIN items |-> C22_Expected(items[i], sels, s)]
C22_PerRequest(t) ==
  pc[t] = "bulk_set_status" =>
    /\ \A s \in StatusInputs :
       \A sels \in SUBSET (Rels(st[t].items) \cup {UnknownRel}) :
         [i \in DOMAIN st[t].items |->
            BulkItem(st[t].items[i], sels, CheckedStatus(s))]
           = C22_Outcome(st[t].items, sels, s)
    /\ \A i \in DOMAIN st[t].items :
         LET it == st[t].items[i]
         IN it.status = "candidate" =>
              BulkItem(BulkItem(it, {it.rel}, CheckedStatus("never")),
                       {it.rel}, CheckedStatus("candidate"))
                = [it EXCEPT !.approved = FALSE]
C22_Step(t) ==
  (pc[t] = "bulk_set_status" /\ pc'[t] # pc[t]) =>
    \E s \in StatusInputs :
    \E sels \in SUBSET (Rels(st[t].items) \cup {UnknownRel}) :
      st'[t] = [st[t] EXCEPT !.items = C22_Outcome(st[t].items, sels, s)]
C22_Saved(t) ==
  (op[t] = "bulk_set_status" /\ pc[t] = "respond" /\ loaded[t] # NoState) =>
    stateFile = Complete(st[t])
C22_BulkEffect ==
  [][\A t \in Threads :
       C22_Step(t) /\ C22_PerRequest(t)' /\ C22_Saved(t)']_vars
\* a re-tag answered that brought a never-tagged item with a suggestion and
\* edits back to candidate, unapproved, beside a done item
C22_Witness ==
  \E t \in Threads :
    /\ op[t] = "bulk_set_status" /\ pc[t] = "respond"
    /\ stateFile = Complete(st[t])
    /\ \E i \in DOMAIN loaded[t].items :
         /\ loaded[t].items[i].status = "never"
         /\ loaded[t].items[i].suggestion # <<>>
         /\ st[t].items[i] = [loaded[t].items[i] EXCEPT !.status = "candidate"]
    /\ \E i \in DOMAIN loaded[t].items : loaded[t].items[i].status = "done"

\* C23: when no request is in flight, every file an apply batch relocated
\* (a log line with ok) belongs to an item the state file records as done,
\* also when the batch ended with an unhandled error on a later item: no
\* relocated file's item is still persisted as an approved candidate.
C23_Relocated == {log[n].src : n \in {m \in DOMAIN log : log[m].ok}}
C23_Agreement ==
  (Quiescent /\ stateFile.kind = "complete") =>
    \A i \in DOMAIN stateFile.reg.items :
      LET it == stateFile.reg.items[i]
      IN SrcPath(stateFile.reg.root, it.rel) \in C23_Relocated =>
           it.status = "done"

\* C24: in the state file and in every handler's registry, an approved item
\* is a candidate with a suggestion: never items, done items and items not
\* yet given a suggestion are not approved.
C24_ApprovedOk(it) ==
  it.approved => (it.status = "candidate" /\ it.suggestion # <<>>)
C24_Registry(reg) ==
  reg # NoState => \A i \in DOMAIN reg.items : C24_ApprovedOk(reg.items[i])
C24_ApprovalInvariant ==
  /\ stateFile.kind = "complete" => C24_Registry(stateFile.reg)
  /\ \A t \in Threads : C24_Registry(st[t])
\* the state file holds an approved candidate beside a never item that has a
\* suggestion
C24_Witness ==
  /\ stateFile.kind = "complete"
  /\ \E i, j \in DOMAIN stateFile.reg.items :
       /\ stateFile.reg.items[i].approved
       /\ stateFile.reg.items[i].status = "candidate"
       /\ stateFile.reg.items[j].status = "never"
       /\ stateFile.reg.items[j].suggestion # <<>>

\* C25: with apply batches running at once, no move or copy that succeeds
\* finds a file at its destination at the moment it relocates, and two
\* attempts with different sources and the same destination never both
\* succeed.
C25_NoReplace(t) ==
  (pc[t] = "apply_relocate" /\ pc'[t] = "apply_log" /\ cur'[t].ok) =>
    cur[t].dest \notin DOMAIN files
C25_OneWinner ==
  \A m, n \in DOMAIN log :
    (log[m].ok /\ log[n].ok /\ log[m].dest = log[n].dest) =>
      log[m].src = log[n].src
C25_CheckAndRelocateAtomic ==
  [][(\A t \in Threads : C25_NoReplace(t)) /\ C25_OneWinner']_vars

\* C26: set_root changes the root field of the registry and nothing else (the
\* items keep their suggestions, edits and approvals), set_mode changes the
\* mode field and nothing else and the mode is always move or copy; both
\* save.  An apply batch resolves every item it attempts under the root it
\* loaded, whatever root the item was scanned under, and it attempts the
\* approved candidates of the registry as set_root left them.
C26_SetRootStep(t) ==
  (pc[t] = "set_root" /\ pc'[t] # pc[t]) =>
    /\ st'[t] = [st[t] EXCEPT !.root = st'[t].root]
    /\ st'[t].root \in RootInputs
C26_SetModeStep(t) ==
  (pc[t] = "set_mode" /\ pc'[t] # pc[t]) =>
    /\ st'[t] = [st[t] EXCEPT !.mode = st'[t].mode]
    /\ st'[t].mode \in {"move", "copy"}
C26_Answered(t) ==
  (op[t] \in {"set_root", "set_mode"} /\ pc[t] = "respond"
     /\ loaded[t] # NoState) =>
    /\ stateFile = Complete(st[t])
    /\ st[t].items = loaded[t].items
    /\ st[t].allowed_folders = loaded[t].allowed_folders
    /\ op[t] = "set_root" => st[t].mode = loaded[t].mode
    /\ op[t] = "set_mode" => st[t].root = loaded[t].root
C26_ModeValid ==
  stateFile.kind = "complete" => stateFile.reg.mode \in {"move", "copy"}
C26_UnderCurrentRoot(t) ==
  /\ (pc[t] = "apply_relocate" /\ files' # files) =>
       LET src == SrcPath(loaded[t].root, loaded[t].items[cur[t].k].rel)
       IN /\ src \in DOMAIN files
          /\ files'[cur[t].dest] = files[src]
          /\ cur[t].dest[1] = loaded[t].root
          /\ st[t].mode = "move" => src \notin DOMAIN files'
  /\ (pc[t] = "apply_log" /\ pc'[t] # pc[t]) =>
       /\ log' = Append(log, log'[Len(log')])
       /\ log'[Len(log')].src =
            SrcPath(loaded[t].root, loaded[t].items[cur[t].k].rel)
       /\ Eligible(loaded[t].items[cur[t].k])
C26_StillEligible(t) ==
  (op[t] = "apply" /\ pc[t] = "respond" /\ resp[t].code = 200) =>
    {results[t][j].rel : j \in DOMAIN results[t]} =
      {loaded[t].items[i].rel :
         i \in {n \in DOMAIN loaded[t].items : Eligible(loaded[t].items[n])}}
C26_RootAndModeFrame ==
  [][\A t \in Threads :
       /\ C26_SetRootStep(t) /\ C26_SetModeStep(t) /\ C26_UnderCurrentRoot(t)
       /\ C26_Answered(t)' /\ C26_StillEligible(t)'
       /\ C26_ModeValid']_vars
\* the root was changed from the one the items were scanned under, no scan
\* followed, and a batch has relocated an item from under the new root
C26_Witness ==
  \E t \in Threads :
    /\ op[t] = "apply" /\ pc[t] = "respond" /\ resp[t].code = 200
    /\ scans = 0
    /\ loaded[t].root \notin StaleRoots
    /\ loaded[t].items = RestartState(loaded[t].root).items
    /\ \E j \in DOMAIN results[t] :
         /\ results[t][j].ok
         /\ results[t][j].dest[1] = loaded[t].root
         /\ results[t][j].dest \in DOMAIN files

\* C27: a name safe_filename returns has at most 180 characters, none of the
\* forbidden or control characters, no space or dot at its end, and
\* safe_filename leaves it as it is (so update_proposals, which sanitizes the
\* edited name again on every submission, never alters an unchanged one).
\* The suggested name stored from an interpretable response is such a name.
C27_Sanitized(t) ==
  Suggested(t) /\ ParseResponse(cur[t].out).kind = "obj"
C27_Name(t) == st[t].items[cur[t].k].suggestion[1].suggested_name
C27_Bounded(y) ==
  Len(y) <= 180 /\ \A i \in DOMAIN y : y[i] \notin ForbiddenChars
C27_NoTrailing(y) == Len(y) > 0 => y[Len(y)] \notin {" ", "."}
C27_SafeAndIdempotent ==
  \A t \in Threads :
    C27_Sanitized(t) =>
      /\ C27_Bounded(C27_Name(t))
      /\ C27_NoTrailing(C27_Name(t))
      /\ safe_filename(C27_Name(t)) = C27_Name(t)
\* the part of C27 the code keeps: the length bound and the characters, and
\* the rest for names the length bound does not cut
C27_UncutSafe ==
  \A t \in Threads :
    C27_Sanitized(t) =>
      /\ C27_Bounded(C27_Name(t))
      /\ Len(C27_Name(t)) < 180 =>
           /\ C27_NoTrailing(C27_Name(t))
           /\ safe_filename(C27_Name(t)) = C27_Name(t)
====
